---------------------------- MODULE Spec2Model ----------------------------
(***************************************************************************)
(* A model of CardMaster's retrieval engine (src/src/rag_engine.py), the   *)
(* agent service that wraps it (src/src/agent_service.py) and the          *)
(* Streamlit script that drives both (src/ui/app.py, src/ui/components.py).*)
(*                                                                         *)
(* Spec          the index freshness pipeline driven by concurrent         *)
(*               sessions: script reruns, the resource caches, rebuilds,   *)
(*               queries, edits of config.json.                            *)
(* SpecSeq       the same pipeline driven by one session, so that calls    *)
(*               follow one another and never overlap.                     *)
(* SpecRetrieve  RAGEngine.retrieve_context as a function of the index     *)
(*               content and of k.                                         *)
(* SpecPrice     RAGEngine.search_price_card as a function of the game,    *)
(*               the card and the upstream outcome.                        *)
(* SpecLoad      DocumentLoader.load_all_documents as a function of the    *)
(*               configuration and of the sources that fail to load.       *)
(* SpecIds       RAGEngine.generate_ids and the upsert of its entries over *)
(*               chunk streams that are indexed, edited and indexed again. *)
(* SpecChat      the agent cache shared by the sessions, each agent's      *)
(*               checkpointer and each session's chat, with create_agent's *)
(*               body as one computation that returns or raises.           *)
(***************************************************************************)
EXTENDS Naturals, Integers, Sequences, FiniteSets, TLC

VARIABLES
    manifest,      \* content of rag_sources/config.json (the source manifest)
    dotenvFile,    \* HASH_CONFIG_FILE as stored in the .env file
    osEnv,         \* HASH_CONFIG_FILE in os.environ of the running process
    collection,    \* entries of the Chroma collection "cardmaster_index"
    svcCache,      \* get_agent_service's cached AgentService (0: none)
    agentCache,    \* create_agent's cache: key -> agent or NoAgent
    agentLock,     \* keys whose create_agent value is being computed
    ivsCache,      \* initialize_vector_store has a cached result
    ivsLock,       \* session computing initialize_vector_store's value, or NoSession
    nextEngine,    \* number of AgentService/RAGEngine instances built so far
    engineConfig,  \* engine -> DocumentLoader.config (manifest read at construction)
    vectorStore,   \* engine -> RAGEngine.vector_store is not None
    pc,            \* session -> position of its script thread
    sess,          \* session -> st.session_state
    call,          \* session -> locals of the call in progress
    lastIvs,       \* history: how the last freshness check or rebuild since the last manifest edit ended
    edits,         \* number of edits of config.json so far
    rq,            \* SpecRetrieve: the retrieve_context call and its result
    pq,            \* SpecPrice: the search_price_card call and its result
    lq,            \* SpecLoad: the load_all_documents call and its result
    iq,            \* SpecIds: a chunk stream, its ids and the index they are written to
    aq             \* SpecChat: the agent cache, the agents' checkpointers, the sessions' chats

coreVars == <<manifest, dotenvFile, osEnv, collection, svcCache,
              agentCache, agentLock, ivsCache, ivsLock, nextEngine, engineConfig,
              vectorStore, pc, sess, call, lastIvs, edits>>
auxVars == <<lq, iq, aq>>
vars == <<coreVars, rq, pq, auxVars>>

---------------------------------------------------------------------------
(* Bounds *)

\* AgentService instances (each with its RAGEngine) built in one process: one
\* at the first rerun, one more after each 'Refresh Cache'.
MaxEngines == 2
\* Edits of config.json while the process runs.
MaxEdits == 1

---------------------------------------------------------------------------
(* Values *)

Sessions == {"s1", "s2"}
NoSession == "none"
Games == {"Magic The Gathering", "Hearthstone"}
\* The model selector also offers "OpenAI"; the choice only names a cache key.
Models == {"Mistral"}
Keys == Games \X Models
NoKey == <<"none", "none">>
NoAgent == [key |-> NoKey, engine |-> 0]
NoHash == <<"none">>
NoManifest == "none"
Manifests == {"A", "B"}
Engines == 1..MaxEngines

\* The sources a manifest declares, in load order (web, then pdf, then json).
Sources(m) ==
    IF m = "A" THEN <<"rules.pdf">> ELSE <<"rules.pdf", "meta.json">>

\* The text a source yields, as its paragraphs.
DocText(src) ==
    IF src = "rules.pdf" THEN <<"flashback", "kicker">> ELSE <<"druid">>

\* hashlib.sha256(json.dumps(config, sort_keys=True)): injective on the manifests.
ConfigHash(m) == <<"sha256", m>>


---------------------------------------------------------------------------
(* RAGEngine: documents, chunks, ids, the collection *)

\* The chunk texts RecursiveCharacterTextSplitter cuts a text into: the first
\* separator is the paragraph break, and the paragraphs here do not fit one chunk
\* together (CHUNK_SIZE), so each paragraph is a chunk.
SplitText(text) == text

RECURSIVE LoadAll(_)
\* DocumentLoader.load_all_documents over the sources of a configuration, in order.
LoadAll(srcs) ==
    IF srcs = <<>> THEN <<>>
    ELSE <<[text |-> DocText(Head(srcs)), source |-> Head(srcs)]>> \o LoadAll(Tail(srcs))

RECURSIVE SplitDocuments(_)
\* RAGEngine._split_documents: each document split on its own, results concatenated.
SplitDocuments(docs) ==
    IF docs = <<>> THEN <<>>
    ELSE LET d == Head(docs)
             parts == SplitText(d.text)
         IN [i \in 1..Len(parts) |-> [text |-> parts[i], source |-> d.source]]
            \o SplitDocuments(Tail(docs))

\* Mutant: the id hashes the ordinal alone.
ChunkIdByOrdinal(i, text) == <<i, "">>

\* Mutant: the id hashes the text alone.
ChunkIdByText(i, text) == <<0, text>>

\* sha256(f"{i}-{chunk.page_content}"): injective on (ordinal, text).
ChunkId(i, text) == <<i, text>>

\* RAGEngine.generate_ids: one id per chunk, from its 0-based ordinal and its text.
GenerateIds(chunks) == [i \in 1..Len(chunks) |-> ChunkId(i - 1, chunks[i].text)]

\* rag_engine.py:173-176: the (id, text, source) entries add_documents is given for
\* a chunk stream.
ChunkEntries(chunks) ==
    LET ids == GenerateIds(chunks)
    IN [i \in 1..Len(chunks) |->
            [id |-> ids[i], text |-> chunks[i].text, source |-> chunks[i].source]]

\* The (id, text, source) entries a rebuild of configuration m sends to add_documents.
EntriesOf(m) == ChunkEntries(SplitDocuments(LoadAll(Sources(m))))

Range(f) == {f[i] : i \in DOMAIN f}

\* Mutant: the store ignores the ids it is given and numbers each entry after the
\* ones it already holds.
UpsertAppending(coll, batch) ==
    coll \cup {[batch[i] EXCEPT !.id = <<Cardinality(coll) + i, batch[i].text>>] :
                  i \in DOMAIN batch}

\* Mutant: the collection is emptied before the entries are written.
UpsertReplacing(coll, batch) == Range(batch)

\* Chroma upsert: an entry with an existing id replaces it, nothing is removed.
Upsert(coll, batch) ==
    {e \in coll : \A b \in Range(batch) : b.id # e.id} \cup Range(batch)

Ids(coll) == {e.id : e \in coll}

\* load_dotenv() (override=False): sets a variable only if the process has none.
LoadDotenv(env, file) == IF env = NoHash THEN file ELSE env

\* rag_engine.py:156,166: update_sources or vector_store._collection.count() == 0
NeedsRebuild(stored_hash, new_hash, count) == stored_hash # new_hash \/ count = 0

\* rag_engine.py:176-179: set_key runs once add_documents has returned.
MayPersist(pending) == pending = <<>>

---------------------------------------------------------------------------
(* Initial state *)

\* since is history: the number of manifest edits made before the rerun started.
NoCall == [engine |-> 0, ret |-> "none", key |-> NoKey, astale |-> FALSE,
           istale |-> FALSE, newHash |-> NoHash, pending |-> <<>>, pre |-> {},
           since |-> 0]
NoSess == [agent |-> NoAgent, current_game |-> "none", model_choice |-> "none"]
NoRq == [st |-> "none"]
NoPq == [st |-> "none"]
NoLq == [st |-> "none"]
NoIq == [st |-> "none", index |-> {}]
NoAq == [st |-> "none"]

\* What persistent storage may hold when the process starts: nothing, an index with
\* its fingerprint, a fingerprint whose index directory was deleted, or an index
\* whose fingerprint was removed from .env.
InitStorage ==
    \E m \in Manifests :
        /\ dotenvFile \in {NoHash, ConfigHash(m)}
        /\ collection \in {{}, Range(EntriesOf(m))}

InitCore ==
    /\ manifest \in Manifests
    /\ InitStorage
    /\ osEnv = dotenvFile
    /\ svcCache = 0
    /\ agentCache = [k \in Keys |-> NoAgent]
    /\ agentLock = {}
    /\ ivsCache = FALSE
    /\ ivsLock = NoSession
    /\ nextEngine = 0
    /\ engineConfig = [e \in Engines |-> NoManifest]
    /\ vectorStore = [e \in Engines |-> FALSE]
    /\ pc = [s \in Sessions |-> "idle"]
    /\ sess = [s \in Sessions |-> NoSess]
    /\ call = [s \in Sessions |-> NoCall]
    /\ lastIvs = "none"
    /\ edits = 0

\* The variables of the other specifications, at rest.
AuxIdle == lq = NoLq /\ iq = NoIq /\ aq = NoAq

Init == InitCore /\ rq = NoRq /\ pq = NoPq /\ AuxIdle

---------------------------------------------------------------------------
(* The Streamlit script: one rerun of ui/app.py per user interaction *)

\* Mutant: current_game is not updated with the agent.
SessionAfterCreateNoGame(old, agent, key) ==
    [agent |-> agent, current_game |-> old.current_game, model_choice |-> key[2]]

\* app.py:81-86: the agent create_agent returned is stored with the selection it
\* was requested for.
SessionAfterCreate(old, agent, key) ==
    [agent |-> agent, current_game |-> key[1], model_choice |-> key[2]]

\* rag_engine.py:199-200: retrieve_context searches at once when the engine holds a
\* store, and calls initialize_vector_store first when it holds none.
RetrievePc(store_set) == IF store_set THEN "search" ELSE "ivs"
RetrieveCall(e, store_set, since) ==
    IF store_set THEN [NoCall EXCEPT !.since = since]
    ELSE [NoCall EXCEPT !.engine = e, !.ret = "retrieve", !.since = since]

\* A rerun of the script up to its first blocking call. load_dotenv() (app.py:25),
\* get_agent_service() (app.py:101), render_sidebar() whose 'Refresh Cache' button
\* clears every resource cache (components.py:75-76: the caches and their compute
\* locks are replaced, calls in flight keep the objects they started with), then
\* get_or_create_agent (app.py:44-89): the stored agent when the selection is
\* unchanged, the cached agent on a hit, else create_agent's body under the key's
\* compute lock, with the service this rerun fetched before any clear. With an
\* agent at hand and a chat message (ask), the agent calls retrieve_context.
RunScript(s, refresh, game, model, ask) ==
    /\ pc[s] = "idle"
    /\ svcCache = 0 => nextEngine < MaxEngines
    /\ LET e == IF svcCache = 0 THEN nextEngine + 1 ELSE svcCache
           key == <<game, model>>
           needs_recreation == \/ sess[s].current_game # game
                               \/ sess[s].model_choice # model
                               \/ sess[s].agent = NoAgent
           cached == IF refresh THEN NoAgent ELSE agentCache[key]
           held == IF refresh THEN {} ELSE agentLock
           agent == IF ~needs_recreation THEN sess[s].agent ELSE cached
       IN /\ osEnv' = LoadDotenv(osEnv, dotenvFile)
          /\ nextEngine' = IF svcCache = 0 THEN e ELSE nextEngine
          /\ engineConfig' = IF svcCache = 0
                               THEN [engineConfig EXCEPT ![e] = manifest]
                               ELSE engineConfig
          /\ svcCache' = IF refresh THEN 0 ELSE e
          /\ ivsCache' = IF refresh THEN FALSE ELSE ivsCache
          /\ ivsLock' = IF refresh THEN NoSession ELSE ivsLock
          /\ agentCache' = IF refresh THEN [k \in Keys |-> NoAgent] ELSE agentCache
          /\ IF agent # NoAgent
               THEN /\ sess' = [sess EXCEPT ![s] =
                            IF needs_recreation
                              THEN SessionAfterCreate(sess[s], agent, key)
                              ELSE sess[s]]
                    /\ agentLock' = held
                    /\ pc' = [pc EXCEPT ![s] =
                            IF ask THEN RetrievePc(vectorStore[agent.engine])
                                   ELSE "idle"]
                    /\ call' = [t \in Sessions |->
                            IF t = s
                              THEN IF ask
                                     THEN RetrieveCall(agent.engine,
                                                       vectorStore[agent.engine],
                                                       edits)
                                     ELSE NoCall
                              ELSE IF refresh
                                     THEN [call[t] EXCEPT
                                            !.astale = @ \/ call[t].ret = "create_agent",
                                            !.istale = @ \/ pc[t] = "add"]
                                     ELSE call[t]]
               ELSE /\ key \notin held
                    /\ agentLock' = held \cup {key}
                    /\ sess' = sess
                    /\ pc' = [pc EXCEPT ![s] = "ivs"]
                    /\ call' = [t \in Sessions |->
                            IF t = s
                              THEN [NoCall EXCEPT !.engine = e,
                                                  !.ret = "create_agent",
                                                  !.key = key,
                                                  !.since = edits]
                              ELSE IF refresh
                                     THEN [call[t] EXCEPT
                                            !.astale = @ \/ call[t].ret = "create_agent",
                                            !.istale = @ \/ pc[t] = "add"]
                                     ELSE call[t]]
    /\ UNCHANGED <<manifest, dotenvFile, collection, vectorStore, lastIvs, edits, rq, pq, auxVars>>

\* Where initialize_vector_store returns to. In create_agent (agent_service.py:
\* 126-147, then app.py:81-89): get_llm may raise (no API key), which ends the
\* rerun; else the agent is built around this service's engine, cached under its
\* key in the cache object the call started with, and stored in the session with
\* the selection; a chat message then makes the agent call retrieve_context. In
\* retrieve_context (rag_engine.py:200): the search follows.
Resume(s, llm_ok, ask, store_set) ==
    LET e == call[s].engine
        key == call[s].key
        agent == [key |-> key, engine |-> e]
    IN IF call[s].ret = "retrieve"
         THEN /\ pc' = [pc EXCEPT ![s] = "search"]
              /\ call' = [call EXCEPT ![s] = [NoCall EXCEPT !.since = call[s].since]]
              /\ UNCHANGED <<sess, agentCache, agentLock>>
         ELSE /\ agentLock' = IF call[s].astale THEN agentLock ELSE agentLock \ {key}
              /\ IF llm_ok
                   THEN /\ agentCache' = IF call[s].astale
                                           THEN agentCache
                                           ELSE [agentCache EXCEPT ![key] = agent]
                        /\ sess' = [sess EXCEPT ![s] =
                                SessionAfterCreate(sess[s], agent, key)]
                        /\ pc' = [pc EXCEPT ![s] =
                                IF ask THEN RetrievePc(store_set) ELSE "idle"]
                        /\ call' = [call EXCEPT ![s] =
                                IF ask THEN RetrieveCall(e, store_set, call[s].since)
                                       ELSE NoCall]
                   ELSE /\ pc' = [pc EXCEPT ![s] = "idle"]
                        /\ call' = [call EXCEPT ![s] = NoCall]
                        /\ UNCHANGED <<agentCache, sess>>

\* initialize_vector_store (rag_engine.py:134-173) up to add_documents. A cache hit
\* returns the cached store (retrieve_context then keeps it, rag_engine.py:200). On
\* a miss the body runs under the compute lock: the early return when this engine
\* already holds a store; else the fingerprint read from os.environ is compared
\* with the hash of config.json as it is now, and either the store is kept as it
\* is on disk, or the documents of the configuration the engine's DocumentLoader
\* read when it was built are loaded, split and given ids.
IvsCall(s, llm_ok, ask) ==
    /\ pc[s] = "ivs"
    /\ LET e == call[s].engine
           new_hash == ConfigHash(manifest)
       IN IF ivsCache
            THEN /\ vectorStore' = [vectorStore EXCEPT
                                        ![e] = @ \/ call[s].ret = "retrieve"]
                 /\ Resume(s, llm_ok, ask, vectorStore'[e])
                 /\ UNCHANGED <<ivsCache, ivsLock, lastIvs>>
            ELSE /\ ivsLock = NoSession
                 /\ IF vectorStore[e]
                      THEN /\ ivsCache' = TRUE
                           /\ Resume(s, llm_ok, ask, TRUE)
                           /\ UNCHANGED <<vectorStore, ivsLock, lastIvs>>
                      ELSE IF NeedsRebuild(osEnv, new_hash, Cardinality(collection))
                      THEN /\ ivsLock' = s
                           /\ call' = [call EXCEPT
                                  ![s].newHash = new_hash,
                                  ![s].pending = EntriesOf(engineConfig[e])]
                           /\ pc' = [pc EXCEPT ![s] = "add"]
                           /\ UNCHANGED <<vectorStore, ivsCache, lastIvs,
                                          sess, agentCache, agentLock>>
                      ELSE /\ vectorStore' = [vectorStore EXCEPT ![e] = TRUE]
                           /\ ivsCache' = TRUE
                           /\ Resume(s, llm_ok, ask, TRUE)
                           /\ lastIvs' = "ok"
                           /\ UNCHANGED ivsLock
    /\ UNCHANGED <<manifest, dotenvFile, osEnv, collection, svcCache,
                   nextEngine, engineConfig, edits, rq, pq, auxVars>>

\* The entries the rebuild in progress has to write in all.
Total(s) == Len(EntriesOf(engineConfig[call[s].engine]))

\* rag_engine.py:176: add_documents writes the entries in one or several batches.
IvsAdd(s, n) ==
    /\ pc[s] = "add"
    /\ n \in 1..Len(call[s].pending)
    /\ collection' = Upsert(collection, SubSeq(call[s].pending, 1, n))
    /\ call' = [call EXCEPT
            ![s].pending = SubSeq(@, n + 1, Len(@)),
            ![s].pre = IF Len(call[s].pending) = Total(s) THEN collection ELSE @]
    /\ UNCHANGED <<manifest, dotenvFile, osEnv, svcCache, agentCache, agentLock,
                   ivsCache, ivsLock, nextEngine, engineConfig, vectorStore, pc,
                   sess, lastIvs, edits, rq, pq, auxVars>>

\* rag_engine.py:179-187: set_key writes the new fingerprint to .env (os.environ is
\* not touched), the engine keeps the store, the call returns and its value is
\* cached in the cache object the call started with.
IvsPersist(s, llm_ok, ask) ==
    /\ pc[s] = "add"
    /\ MayPersist(call[s].pending)
    /\ dotenvFile' = call[s].newHash
    /\ vectorStore' = [vectorStore EXCEPT ![call[s].engine] = TRUE]
    /\ ivsCache' = IF call[s].istale THEN ivsCache ELSE TRUE
    /\ ivsLock' = IF call[s].istale THEN ivsLock ELSE NoSession
    /\ Resume(s, llm_ok, ask, TRUE)
    /\ lastIvs' = "ok"
    /\ UNCHANGED <<manifest, osEnv, collection, svcCache, nextEngine,
                   engineConfig, edits, rq, pq, auxVars>>

\* An exception in load_all_documents, _split_documents or add_documents leaves
\* initialize_vector_store at once (rag_engine.py:171-176): set_key is not reached,
\* the engine's vector_store is not assigned, the compute locks are released,
\* nothing is cached, and the exception ends the caller (create_agent and the
\* rerun, or the agent invocation, app.py:157).
IvsFail(s) ==
    /\ pc[s] = "add"
    /\ call[s].pending # <<>>
    /\ ivsLock' = IF call[s].istale THEN ivsLock ELSE NoSession
    /\ agentLock' = IF call[s].ret = "create_agent" /\ ~call[s].astale
                      THEN agentLock \ {call[s].key} ELSE agentLock
    /\ call' = [call EXCEPT ![s] = NoCall]
    /\ pc' = [pc EXCEPT ![s] = "idle"]
    /\ lastIvs' = "failed"
    /\ UNCHANGED <<manifest, dotenvFile, osEnv, collection, svcCache,
                   agentCache, ivsCache, nextEngine, engineConfig, vectorStore,
                   sess, edits, rq, pq, auxVars>>

\* rag_engine.py:203: similarity_search reads the collection as it is now, with no
\* lock shared with a rebuild; the rerun ends with the answer.
Search(s) ==
    /\ pc[s] = "search"
    /\ pc' = [pc EXCEPT ![s] = "idle"]
    /\ call' = [call EXCEPT ![s] = NoCall]
    /\ UNCHANGED <<manifest, dotenvFile, osEnv, collection, svcCache,
                   agentCache, agentLock, ivsCache, ivsLock, nextEngine,
                   engineConfig, vectorStore, sess, lastIvs,
                   edits, rq, pq, auxVars>>

\* The operator edits rag_sources/config.json while the application runs.
EditManifest(m) ==
    /\ m # manifest
    /\ edits < MaxEdits
    /\ edits' = edits + 1
    /\ manifest' = m
    /\ lastIvs' = "none"
    /\ UNCHANGED <<dotenvFile, osEnv, collection, svcCache, agentCache,
                   agentLock, ivsCache, ivsLock, nextEngine, engineConfig,
                   vectorStore, pc, sess, call, rq, pq, auxVars>>

\* One step of the sessions in S.
Step(S) ==
    \/ \E s \in S, refresh \in BOOLEAN, g \in Games, m \in Models, ask \in BOOLEAN :
          RunScript(s, refresh, g, m, ask)
    \/ \E s \in S, llm_ok \in BOOLEAN, ask \in BOOLEAN : IvsCall(s, llm_ok, ask)
    \/ \E s \in S, n \in 1..3 : IvsAdd(s, n)
    \/ \E s \in S, llm_ok \in BOOLEAN, ask \in BOOLEAN : IvsPersist(s, llm_ok, ask)
    \/ \E s \in S : IvsFail(s)
    \/ \E s \in S : Search(s)
    \/ \E m \in Manifests : EditManifest(m)

Next == Step(Sessions)

\* Concurrent sessions sharing the process, its caches and the index.
Spec == Init /\ [][Next]_vars

NextSeq == Step({"s1"})

\* One session: every call runs to its end before the next one starts.
SpecSeq == Init /\ [][NextSeq]_vars

---------------------------------------------------------------------------
(* Claims on the freshness pipeline *)

\* The step in which session s's initialize_vector_store call takes its decision:
\* it returns (to create_agent or to retrieve_context) or starts a rebuild.
IvsStep(s) ==
    /\ pc[s] = "ivs"
    /\ pc'[s] # "ivs" \/ call'[s].ret # call[s].ret

\* The step in which session s's similarity_search reads the collection.
SearchStep(s) == pc[s] = "search" /\ pc'[s] = "idle"

\* The step in which an exception ends session s's rebuild.
FailStep(s) == pc[s] = "add" /\ call[s].pending # <<>> /\ pc'[s] = "idle"

\* Session t's add_documents has written some of its entries and not yet all.
PartlyWritten(t) ==
    /\ pc[t] = "add"
    /\ call[t].pending # <<>>
    /\ Len(call[t].pending) < Total(t)

\* C1: a call of initialize_vector_store runs the rebuild if and only if the
\* fingerprint stored in .env differs from the hash of the current manifest or the
\* index is empty; with equal fingerprints and a non-empty index it loads and
\* writes nothing.
C1_RebuildIffStaleOrEmpty ==
    [][\A s \in Sessions :
          IvsStep(s) =>
              (pc'[s] = "add" <=>
                  (dotenvFile # ConfigHash(manifest) \/ collection = {}))]_vars

\* C2: once a call of initialize_vector_store has completed its freshness check or
\* its rebuild, a following call with the manifest unchanged never rebuilds,
\* whichever engine or session makes it and also after a cache clear.
C2_SecondCallNoRebuild ==
    [][\A s \in Sessions : (IvsStep(s) /\ lastIvs = "ok") => pc'[s] # "add"]_vars

\* C3: at most one session is between the start of load_all_documents and the
\* persisting of the new fingerprint.
C3_AtMostOneRebuild == Cardinality({s \in Sessions : pc[s] = "add"}) <= 1

\* C4: a similarity_search that runs while another session's add_documents has
\* written a part of its entries reads exactly the entries that existed before
\* that add_documents started.
C4_NoPartialRead ==
    [][\A s \in Sessions :
          SearchStep(s) =>
              \A t \in Sessions \ {s} :
                  PartlyWritten(t) => collection = call[t].pre]_vars

\* C5: a query made after the manifest was edited is answered from an index
\* rebuilt for the edited manifest: when the similarity_search of a rerun that
\* started after the last edit reads the collection, the collection holds every
\* entry of the current manifest.
C5_QueryAfterEditReadsNewIndex ==
    [][\A s \in Sessions :
          (SearchStep(s) /\ edits > 0 /\ call[s].since = edits) =>
              Range(EntriesOf(manifest)) \subseteq collection]_vars

\* C6: after an exception ended a rebuild, the next initialize_vector_store call
\* with the manifest unchanged attempts the rebuild again.
C6_FailedRebuildAlwaysRetried ==
    [][\A s \in Sessions : (IvsStep(s) /\ lastIvs = "failed") => pc'[s] = "add"]_vars

\* C15: for every (game, model) pair at most one session at a time is inside
\* create_agent's body building the agent of that pair.
C15_AgentBuiltOncePerKey ==
    \A k \in Keys :
        Cardinality({s \in Sessions :
                        call[s].ret = "create_agent" /\ call[s].key = k}) <= 1

\* The pair recorded in a session.
Recorded(ss) == <<ss.current_game, ss.model_choice>>

\* C16: in every session a non-null agent is the agent created for the recorded
\* (current_game, model_choice); the step that ends create_agent either stores
\* the new agent with its pair or, when it raised, leaves agent, current_game and
\* model_choice as they were; and a rerun whose selection equals the recorded pair
\* of a non-null agent creates nothing and keeps the stored agent.
C16_SessionSelection ==
    [][\A s \in Sessions :
          /\ sess'[s].agent # NoAgent => sess'[s].agent.key = Recorded(sess'[s])
          /\ (call[s].ret = "create_agent" /\ call'[s].ret # "create_agent") =>
                \/ sess'[s] = sess[s]
                \/ /\ sess'[s].agent.key = call[s].key
                   /\ Recorded(sess'[s]) = call[s].key
          /\ (pc[s] = "idle" /\ sess[s].agent # NoAgent) =>
                /\ call'[s].ret = "create_agent" =>
                      call'[s].key # Recorded(sess[s])
                /\ Recorded(sess'[s]) = Recorded(sess[s]) => sess'[s] = sess[s]]_vars

\* C16 witness: a session that holds an agent selected the other game, and the
\* create_agent call this started raised in its rebuild; the session still holds
\* the agent and the pair it had.
C16_Witness ==
    /\ lastIvs = "failed"
    /\ pc["s1"] = "idle"
    /\ sess["s1"].agent # NoAgent
    /\ sess["s1"].agent.key = Recorded(sess["s1"])

\* C13: the set of ids stored in the index only grows: no step of a rebuild, of a
\* query or of anything else removes an id.
C13_IdsOnlyGrow == [][Ids(collection) \subseteq Ids(collection')]_vars

\* C13 witness: the index was rebuilt for a manifest that declares fewer sources
\* than the one it was built for before, the new fingerprint is stored, and a
\* similarity_search is about to read a collection that still holds a chunk of
\* the removed source.
C13_Witness ==
    /\ lastIvs = "ok"
    /\ dotenvFile = ConfigHash(manifest)
    /\ Range(EntriesOf(manifest)) \subseteq collection
    /\ \E e \in collection : e.source \notin Range(Sources(manifest))
    /\ \E s \in Sessions : pc[s] = "search"

---------------------------------------------------------------------------
(* RAGEngine.retrieve_context as a function of the index and of k *)

\* Largest index (in ranked documents) and largest k a caller passes.
MaxHits == 8
MaxK == 8

\* config.py:39
SIMILARITY_TOP_K == 7

Min(a, b) == IF a <= b THEN a ELSE b

\* The k argument: <<>> when omitted (None), <<n>> when given.
KArgs == {<<>>} \cup {<<n>> : n \in 0..MaxK}

\* The i-th document of the index in the query's similarity order. Every third
\* one was stored with no 'source' in its metadata.
Doc(i) ==
    [page_content |-> <<"flashback", "kicker", "druid">>[(i % 3) + 1],
     metadata |-> IF i % 3 = 0 THEN {} ELSE {<<"source", "rules.pdf">>}]

\* An index of n documents, ranked for the query.
Ranked(n) == [i \in 1..n |-> Doc(i)]

\* dict.get(key, default)
MetadataGet(md, key, default) ==
    IF \E kv \in md : kv[1] = key
      THEN (CHOOSE kv \in md : kv[1] = key)[2]
      ELSE default

\* rag_engine.py:202: k or RAGConfig.SIMILARITY_TOP_K, None and 0 both being falsy.
KOrDefault(k) == IF k = <<>> \/ k[1] = 0 THEN SIMILARITY_TOP_K ELSE k[1]

\* vector_store.similarity_search(query, k=k): the k best documents, best first,
\* or all of them when the index holds fewer.
SimilaritySearch(index, k) == SubSeq(index, 1, Min(k, Len(index)))

\* rag_engine.py:207-208: one document rendered, as the pieces of its string.
Format(doc) ==
    <<"Source: ", MetadataGet(doc.metadata, "source", "Unknown"), "\n",
      "Content: ", doc.page_content>>

RECURSIVE Join(_, _)
\* sep.join(parts) on strings given as sequences of pieces; "" for no part.
Join(parts, sep) ==
    IF parts = <<>> THEN <<>>
    ELSE IF Len(parts) = 1 THEN parts[1]
    ELSE parts[1] \o <<sep>> \o Join(Tail(parts), sep)

\* Mutant: a placeholder text returned when nothing was retrieved.
SerializeOrSentinel(retrieved_docs) ==
    IF retrieved_docs = <<>>
      THEN <<"No relevant information found.">>
      ELSE Join([i \in 1..Len(retrieved_docs) |-> Format(retrieved_docs[i])], "\n\n")

\* rag_engine.py:206-210
Serialize(retrieved_docs) ==
    Join([i \in 1..Len(retrieved_docs) |-> Format(retrieved_docs[i])], "\n\n")

RetrieveCalls ==
    {[st |-> "call", docs |-> Ranked(n), k |-> k, result |-> <<>>] :
        n \in 0..MaxHits, k \in KArgs}

\* rag_engine.py:202-212, on an engine that holds its store.
RetrieveContext ==
    /\ rq.st = "call"
    /\ LET k == KOrDefault(rq.k)
           retrieved_docs == SimilaritySearch(rq.docs, k)
       IN rq' = [rq EXCEPT !.st = "done", !.result = Serialize(retrieved_docs)]
    /\ UNCHANGED <<coreVars, pq, auxVars>>

\* The caller makes its next call.
NextRetrieveCall(c) ==
    /\ rq.st = "done"
    /\ rq' = c
    /\ UNCHANGED <<coreVars, pq, auxVars>>

InitQuiet ==
    /\ InitCore
    /\ manifest = "A"
    /\ dotenvFile = NoHash
    /\ collection = {}

InitRetrieve == InitQuiet /\ rq \in RetrieveCalls /\ pq = NoPq /\ AuxIdle

NextRetrieve ==
    \/ RetrieveContext
    \/ \E c \in RetrieveCalls : NextRetrieveCall(c)

SpecRetrieve == InitRetrieve /\ [][NextRetrieve]_vars

\* The number of documents rendered in a result.
Entries(result) == Cardinality({i \in DOMAIN result : result[i] = "Source: "})

C8_RendersMinKEntries ==
    rq.st = "done" =>
        LET k == IF rq.k = <<>> THEN SIMILARITY_TOP_K ELSE rq.k[1]
            n == Min(k, Len(rq.docs))
        IN /\ Entries(rq.result) = n
           /\ rq.result = Join([i \in 1..n |-> Format(rq.docs[i])], "\n\n")

---------------------------------------------------------------------------
(* RAGEngine.search_price_card as a function of game, card and upstream answer *)

\* rag_engine.py:248: max_results
MaxResults == 3

PriceGames == {"Magic The Gathering", "Hearthstone", "Yu-Gi-Oh"}
Cards == {"Black Lotus", "Ragnaros", "Blue-Eyes"}

\* Python values a call may return: None, or a string given by its pieces.
PyNone == [is_none |-> TRUE, text |-> <<>>]
Str(text) == [is_none |-> FALSE, text |-> text]

\* How a block of code ends: it returns a value, raises, or runs to its end.
Return(v) == [kind |-> "return", value |-> v]
Raise == [kind |-> "raise", value |-> PyNone]
FallThrough == [kind |-> "fallthrough", value |-> PyNone]

\* What the upstream service does with the request: the call raises (no network,
\* timeout, missing API key), or answers with a status and a body that is JSON
\* or not, with some keys, and (Tavily) a list of results, each with some keys.
NoResp == [raises |-> FALSE, status |-> 0, json |-> FALSE, keys |-> {},
           results |-> <<>>]

ScryfallResponses ==
    {[NoResp EXCEPT !.raises = TRUE]}
    \cup {[NoResp EXCEPT !.status = s] : s \in {200, 404}}
    \cup {[NoResp EXCEPT !.status = s, !.json = TRUE, !.keys = ks] :
            s \in {200, 404}, ks \in SUBSET {"name", "prices"}}

ResultItems == {{"content", "url"}, {"content"}}

TavilyResponses ==
    {[NoResp EXCEPT !.raises = TRUE]}
    \cup {[NoResp EXCEPT !.status = 200, !.json = TRUE]}
    \cup {[NoResp EXCEPT !.status = 200, !.json = TRUE, !.keys = {"results"},
                         !.results = r] :
            r \in UNION {[1..n -> ResultItems] : n \in 0..MaxResults}}

Responses(game) ==
    IF game = "Magic The Gathering" THEN ScryfallResponses
    ELSE IF game = "Hearthstone" THEN TavilyResponses
    ELSE {NoResp}

\* rag_engine.py:228-237: the try block of the Magic The Gathering branch.
MtgTry(card_name, resp) ==
    IF resp.raises THEN Raise
    ELSE IF resp.status = 200
      THEN IF ~resp.json THEN Raise
           ELSE IF "name" \notin resp.keys THEN Raise
           ELSE Return(Str(<<"MTG Price for ", card_name, ":\n- Normal: ",
                             IF "prices" \in resp.keys THEN "eur" ELSE "N/A",
                             " | Foil: ",
                             IF "prices" \in resp.keys THEN "eur_foil" ELSE "N/A",
                             "\n- View: ", "scryfall_uri">>))
    ELSE FallThrough

\* Mutant: the handler logs and raises again.
MtgExceptReraise(outcome) == outcome

\* rag_engine.py:239-240: the handler logs the error and ends.
MtgExcept(outcome) == FallThrough

\* rag_engine.py:246-261: the try block of the Hearthstone branch.
HearthstoneTry(card_name, resp) ==
    IF resp.raises THEN Raise
    ELSE IF "results" \notin resp.keys THEN Raise
    ELSE IF \E i \in DOMAIN resp.results : {"content", "url"} \ resp.results[i] # {}
      THEN Raise
    ELSE LET details == IF Len(resp.results) > 0
                          THEN Join([i \in DOMAIN resp.results |->
                                        <<"- ", "content", " (Source: ", "url", ")">>],
                                    "\n")
                          ELSE <<"No cost to craft information found.">>
         IN Return(Str(<<"Hearthstone Info for '", card_name, "':\n">> \o details
                       \o <<"\n- Source Link: ",
                            "https://www.hearthpwn.com/cards?filter-name=",
                            card_name>>))

\* rag_engine.py:263-265: the handler returns the manual search link.
HearthstoneExcept(card_name, outcome) ==
    Return(Str(<<"Manual search link for ", card_name,
                 ": https://www.hearthpwn.com/cards?filter-name=", card_name>>))

\* rag_engine.py:214-265: a function that runs to its end returns None, and so
\* does one whose game is neither branch's.
search_price_card(game_name, card_name, resp) ==
    LET tried == IF game_name = "Magic The Gathering"
                   THEN MtgTry(card_name, resp)
                 ELSE IF game_name = "Hearthstone"
                   THEN HearthstoneTry(card_name, resp)
                 ELSE FallThrough
        handled == IF tried.kind # "raise" THEN tried
                   ELSE IF game_name = "Magic The Gathering" THEN MtgExcept(tried)
                   ELSE HearthstoneExcept(card_name, tried)
    IN IF handled.kind = "fallthrough" THEN Return(PyNone) ELSE handled

PriceCalls ==
    {[st |-> "call", game |-> g, card |-> c, resp |-> r, result |-> FallThrough] :
        g \in PriceGames, c \in Cards, r \in ScryfallResponses \cup TavilyResponses}

\* agent_service.py:86: the check_price tool calls search_price_card.
SearchPriceCard ==
    /\ pq.st = "call"
    /\ pq' = [pq EXCEPT !.st = "done",
                        !.result = search_price_card(pq.game, pq.card, pq.resp)]
    /\ UNCHANGED <<coreVars, rq, auxVars>>

\* The agent makes its next call of the tool.
NextPriceCall(c) ==
    /\ pq.st = "done"
    /\ c.resp \in Responses(c.game)
    /\ pq' = c
    /\ UNCHANGED <<coreVars, rq, auxVars>>

InitPrice ==
    /\ InitQuiet
    /\ rq = NoRq
    /\ pq \in {c \in PriceCalls : c.resp \in Responses(c.game)}
    /\ AuxIdle

NextPrice ==
    \/ SearchPriceCard
    \/ \E c \in PriceCalls : NextPriceCall(c)

SpecPrice == InitPrice /\ [][NextPrice]_vars

\* C9: search_price_card never propagates an exception: every call returns.
C9_NeverRaises == pq.st = "done" => pq.result.kind = "return"

\* C9 witness: a Magic The Gathering call whose request raised has ended.
C9_Witness ==
    /\ pq.st = "done"
    /\ pq.resp.raises
    /\ pq.game = "Magic The Gathering"

\* C10: search_price_card always returns a non-null, non-empty string.
C10_ReturnsString ==
    pq.st = "done" =>
        /\ pq.result.kind = "return"
        /\ ~pq.result.value.is_none
        /\ pq.result.value.text # <<>>

---------------------------------------------------------------------------
(* DocumentLoader.load_all_documents as a function of the configuration *)

\* The configurations: the URLs of every game put together, the PDF paths and the
\* JSON paths, each in its declared order.
LoadConfigs ==
    [urls : {<<>>, <<"wiki/rules">>, <<"wiki/rules", "wiki/meta">>},
     pdfs : {<<>>, <<"rules.pdf">>, <<"rules.pdf", "cards.pdf">>},
     jsons : {<<>>, <<"meta.json">>}]

Declared(config) == Range(config.urls) \cup Range(config.pdfs) \cup Range(config.jsons)
DeclaredFiles(config) == Range(config.pdfs) \cup Range(config.jsons)

\* The documents one source yields when it loads.
DocsOf(src) == <<[text |-> DocText(src), source |-> src]>>

RECURSIVE LoadEach(_)
LoadEach(srcs) ==
    IF srcs = <<>> THEN <<>> ELSE DocsOf(Head(srcs)) \o LoadEach(Tail(srcs))

\* document_loader.py:18-46: every URL goes to one WebBaseLoader whose load() is
\* inside one try; when fetching a URL raises, the handler returns no document.
LoadWebDocuments(config, bad) ==
    IF config.urls = <<>> THEN <<>>
    ELSE IF \E i \in DOMAIN config.urls : config.urls[i] \in bad THEN <<>>
    ELSE LoadEach(config.urls)

RECURSIVE LoadFiles(_, _, _)
\* document_loader.py:57-67 and 81-97: a path that does not exist is logged, a
\* loader that raises is logged, and the loop goes on with the next path.
LoadFiles(paths, bad, missing) ==
    IF paths = <<>> THEN <<>>
    ELSE (IF Head(paths) \in missing \/ Head(paths) \in bad
            THEN <<>>
            ELSE DocsOf(Head(paths)))
         \o LoadFiles(Tail(paths), bad, missing)

\* document_loader.py:48-69
LoadPdfDocuments(config, bad, missing) == LoadFiles(config.pdfs, bad, missing)

\* document_loader.py:71-99
LoadJsonDocuments(config, bad, missing) == LoadFiles(config.jsons, bad, missing)

\* document_loader.py:132-144
LoadAllDocuments(config, bad, missing) ==
    LoadWebDocuments(config, bad)
    \o LoadPdfDocuments(config, bad, missing)
    \o LoadJsonDocuments(config, bad, missing)

\* A call: the configuration, the sources whose loading raises, the files that
\* do not exist.
LoadCalls ==
    {[st |-> "call", config |-> c, bad |-> b, missing |-> m, result |-> <<>>] :
        c \in LoadConfigs,
        b \in SUBSET {"wiki/rules", "wiki/meta", "rules.pdf", "cards.pdf", "meta.json"},
        m \in SUBSET {"rules.pdf", "cards.pdf", "meta.json"}}

WellFormedLoad(c) ==
    /\ c.bad \subseteq Declared(c.config)
    /\ c.missing \subseteq DeclaredFiles(c.config) \ c.bad

\* rag_engine.py:171: the rebuild loads the documents.
LoadAllCall ==
    /\ lq.st = "call"
    /\ lq' = [lq EXCEPT !.st = "done",
                        !.result = LoadAllDocuments(lq.config, lq.bad, lq.missing)]
    /\ UNCHANGED <<coreVars, rq, pq, iq, aq>>

\* The next rebuild finds another configuration and other sources failing.
NextLoadCall(c) ==
    /\ lq.st = "done"
    /\ WellFormedLoad(c)
    /\ lq' = c
    /\ UNCHANGED <<coreVars, rq, pq, iq, aq>>

InitLoad ==
    /\ InitQuiet
    /\ rq = NoRq
    /\ pq = NoPq
    /\ iq = NoIq
    /\ aq = NoAq
    /\ lq \in {c \in LoadCalls : WellFormedLoad(c)}

NextLoad ==
    \/ LoadAllCall
    \/ \E c \in LoadCalls : NextLoadCall(c)

SpecLoad == InitLoad /\ [][NextLoad]_vars

\* The sources of a call that neither raise nor are missing, in load order.
Loadable(c) ==
    SelectSeq(c.config.urls \o c.config.pdfs \o c.config.jsons,
              LAMBDA src : src \notin c.bad /\ src \notin c.missing)

\* C11: load_all_documents returns the documents of every declared source that
\* loads; a source that fails to load takes only its own documents away.
C11_FailuresIsolatedPerItem ==
    lq.st = "done" => lq.result = LoadEach(Loadable(lq))

---------------------------------------------------------------------------
(* RAGEngine.generate_ids and the upsert of its entries, over chunk streams *)

\* Longest chunk stream.
MaxChunks == 3

ChunkTexts == {"flashback", "kicker"}
Chunks == {[text |-> x, source |-> "rules.pdf"] : x \in ChunkTexts}
Streams == UNION {[1..n -> Chunks] : n \in 0..MaxChunks}

NoEdit == [kind |-> "none", at |-> 0]
NoPass == [chunks |-> <<>>, ids |-> <<>>, index |-> {}]

\* What the last indexing pass worked on and left.
LastPass == [chunks |-> iq.chunks, ids |-> iq.ids, index |-> iq.index]

\* rag_engine.py:173-176: generate_ids, then add_documents with these ids.
IndexPass ==
    /\ iq.st = "split"
    /\ iq' = [iq EXCEPT !.st = "indexed",
                        !.ids = GenerateIds(iq.chunks),
                        !.index = Upsert(iq.index, ChunkEntries(iq.chunks))]
    /\ UNCHANGED <<coreVars, rq, pq, lq, aq>>

\* The next rebuild splits the same documents into the same chunks.
SameStream ==
    /\ iq.st = "indexed"
    /\ iq' = [iq EXCEPT !.st = "split", !.prev = LastPass,
                        !.edit = [kind |-> "same", at |-> 0]]
    /\ UNCHANGED <<coreVars, rq, pq, lq, aq>>

\* The text of the chunk at position j (1-based) has changed.
ChangeText(j, x) ==
    /\ iq.st = "indexed"
    /\ j \in 1..Len(iq.chunks)
    /\ x # iq.chunks[j].text
    /\ iq' = [iq EXCEPT !.st = "split", !.prev = LastPass,
                        !.chunks[j].text = x,
                        !.edit = [kind |-> "change", at |-> j]]
    /\ UNCHANGED <<coreVars, rq, pq, lq, aq>>

\* A chunk has been inserted at position j (1-based).
InsertChunk(j, c) ==
    /\ iq.st = "indexed"
    /\ Len(iq.chunks) < MaxChunks
    /\ j \in 1..(Len(iq.chunks) + 1)
    /\ iq' = [iq EXCEPT !.st = "split", !.prev = LastPass,
                        !.chunks = SubSeq(@, 1, j - 1) \o <<c>> \o SubSeq(@, j, Len(@)),
                        !.edit = [kind |-> "insert", at |-> j]]
    /\ UNCHANGED <<coreVars, rq, pq, lq, aq>>

\* The sources have changed altogether.
ReplaceStream(s) ==
    /\ iq.st = "indexed"
    /\ s # iq.chunks
    /\ iq' = [iq EXCEPT !.st = "split", !.prev = LastPass, !.chunks = s,
                        !.edit = [kind |-> "replace", at |-> 0]]
    /\ UNCHANGED <<coreVars, rq, pq, lq, aq>>

InitIds ==
    /\ InitQuiet
    /\ rq = NoRq
    /\ pq = NoPq
    /\ lq = NoLq
    /\ aq = NoAq
    /\ iq \in [st : {"split"}, chunks : Streams, ids : {<<>>}, index : {{}},
               prev : {NoPass}, edit : {NoEdit}]

NextIds ==
    \/ IndexPass
    \/ SameStream
    \/ \E j \in 1..MaxChunks, x \in ChunkTexts : ChangeText(j, x)
    \/ \E j \in 1..MaxChunks, c \in Chunks : InsertChunk(j, c)
    \/ \E s \in Streams : ReplaceStream(s)

SpecIds == InitIds /\ [][NextIds]_vars

\* The (id, text) pairs an index holds.
IdTexts(index) == {<<e.id, e.text>> : e \in index}

\* C12: indexing the same chunk stream a second time gives the same id sequence and
\* leaves the index with the same (id, text) entries and the same count.
C12_ReindexIdempotent ==
    (iq.st = "indexed" /\ iq.edit.kind = "same") =>
        /\ iq.ids = iq.prev.ids
        /\ IdTexts(iq.index) = IdTexts(iq.prev.index)
        /\ Cardinality(iq.index) = Cardinality(iq.prev.index)

\* C12 witness: a stream with two chunks of the same text has been indexed twice.
C12_Witness ==
    /\ iq.st = "indexed"
    /\ iq.edit.kind = "same"
    /\ Len(iq.chunks) >= 2
    /\ iq.chunks[1].text = iq.chunks[2].text

\* Positions 1..n hold the same texts in the stream indexed before and in the
\* stream indexed now.
AgreeUpTo(n) ==
    /\ n <= Len(iq.chunks)
    /\ n <= Len(iq.prev.chunks)
    /\ \A i \in 1..n : iq.chunks[i].text = iq.prev.chunks[i].text

\* C14: ids are position-sensitive. Two streams that agree on their first n chunks
\* get the same ids there; a chunk whose text changed gets a different id and no
\* other id changes; after an insertion at position j every chunk that was at or
\* after j has a different id.
C14_IdsPositionSensitive ==
    iq.st = "indexed" =>
        /\ \A n \in 0..MaxChunks :
              AgreeUpTo(n) => \A i \in 1..n : iq.ids[i] = iq.prev.ids[i]
        /\ iq.edit.kind = "change" =>
              /\ iq.ids[iq.edit.at] # iq.prev.ids[iq.edit.at]
              /\ \A i \in DOMAIN iq.ids \ {iq.edit.at} : iq.ids[i] = iq.prev.ids[i]
        /\ iq.edit.kind = "insert" =>
              \A i \in iq.edit.at..Len(iq.prev.chunks) :
                  iq.ids[i + 1] # iq.prev.ids[i]

\* C14 witness: a chunk was inserted before the last chunk of a stream, between
\* chunks of its own text, and the stream indexed again.
C14_Witness ==
    /\ iq.st = "indexed"
    /\ iq.edit.kind = "insert"
    /\ iq.edit.at = 2
    /\ Len(iq.chunks) = 3
    /\ iq.chunks[1].text = iq.chunks[2].text
    /\ iq.chunks[2].text = iq.chunks[3].text

\* C18: one indexing pass gives one id per chunk, the ids are pairwise distinct
\* also when chunks share their text, and the pass writes as many distinct ids as
\* there are chunks.
C18_IdsDistinctPerPass ==
    iq.st = "indexed" =>
        /\ Len(iq.ids) = Len(iq.chunks)
        /\ \A i, k \in DOMAIN iq.ids : i # k => iq.ids[i] # iq.ids[k]
        /\ Cardinality(Range(iq.ids)) = Len(iq.chunks)
        /\ Range(iq.ids) \subseteq Ids(iq.index)

\* C18 witness: a stream whose three chunks have the same text has been indexed
\* into an empty index, which now holds three entries.
C18_Witness ==
    /\ iq.st = "indexed"
    /\ iq.edit = NoEdit
    /\ Len(iq.chunks) = 3
    /\ \A i \in 1..3 : iq.chunks[i].text = "kicker"
    /\ Cardinality(iq.index) = 3

---------------------------------------------------------------------------
(* The chat: sessions, cached agents and their checkpointers *)

\* Agents built and chat messages entered in one run of the process.
MaxAgents == 2
MaxTurns == 2

AgentIds == 1..MaxAgents
NullAgent == 0

\* app.py:146: config = {"configurable": {"thread_id": "1"}}
ThreadIds == {"1"} \cup Sessions

\* Mutant: each session invokes the agent with a thread id of its own.
ThreadOfSession(s) == s

\* app.py:146: the thread id every invocation passes.
ThreadOf(s) == "1"

NoChatSess == [agent |-> NullAgent, current_game |-> "none", model_choice |-> "none",
               messages |-> <<>>]
NoChatCall == [key |-> NoKey, stale |-> FALSE]

\* app.py:33-42 and agent_service.py:144: no session has an agent or a message,
\* nothing is cached, and the InMemorySaver an agent is built with is empty.
ChatStart ==
    [st |-> "run",
     cache |-> [k \in Keys |-> NullAgent],
     lock |-> {},
     sess |-> [s \in Sessions |-> NoChatSess],
     pc |-> [s \in Sessions |-> "idle"],
     call |-> [s \in Sessions |-> NoChatCall],
     saver |-> [a \in AgentIds |-> [th \in ThreadIds |-> <<>>]],
     built |-> 0,
     turns |-> 0]

\* A rerun of the script up to its first blocking call: the sidebar's 'Clear Chat
\* history' (components.py:70-71) and 'Refresh Cache' (components.py:75-76), then
\* get_or_create_agent (app.py:44-89): the stored agent when the selection is
\* unchanged, the cached agent on a hit, else create_agent's body under the key's
\* compute lock. With an agent at hand and a chat message entered (app.py:136),
\* the agent is invoked next.
ChatRun(s, clear_chat, refresh, game, model, ask) ==
    /\ aq.pc[s] = "idle"
    /\ LET key == <<game, model>>
           ss == aq.sess[s]
           kept == IF clear_chat THEN [ss EXCEPT !.messages = <<>>] ELSE ss
           needs_recreation == \/ ss.current_game # game
                               \/ ss.model_choice # model
                               \/ ss.agent = NullAgent
           cache == IF refresh THEN [k \in Keys |-> NullAgent] ELSE aq.cache
           held == IF refresh THEN {} ELSE aq.lock
           agent == IF ~needs_recreation THEN ss.agent ELSE cache[key]
           calls == [t \in Sessions |->
                        IF refresh /\ aq.pc[t] = "build"
                          THEN [aq.call[t] EXCEPT !.stale = TRUE]
                          ELSE aq.call[t]]
       IN IF agent # NullAgent
            THEN /\ ask => aq.turns < MaxTurns
                 /\ aq' = [aq EXCEPT
                             !.turns = IF ask THEN @ + 1 ELSE @,
                             !.cache = cache, !.lock = held, !.call = calls,
                             !.sess[s] = [kept EXCEPT !.agent = agent,
                                                      !.current_game = game,
                                                      !.model_choice = model],
                             !.pc[s] = IF ask THEN "invoke" ELSE "idle"]
            ELSE /\ key \notin held
                 /\ aq.built + Cardinality({t \in Sessions : aq.pc[t] = "build"}) < MaxAgents
                 /\ aq' = [aq EXCEPT
                             !.cache = cache, !.lock = held \cup {key},
                             !.call = [calls EXCEPT ![s] = [key |-> key,
                                                            stale |-> FALSE]],
                             !.sess[s] = kept,
                             !.pc[s] = "build"]
    /\ UNCHANGED <<coreVars, rq, pq, lq, iq>>

\* create_agent's body ends (agent_service.py:124-147). When it returns, the new
\* agent with its own InMemorySaver is cached under its key in the cache object
\* the call started with and stored in the session with the selection
\* (app.py:81-86); when initialize_vector_store or get_llm raised, nothing is
\* cached or stored and the rerun ends.
ChatBuildEnd(s, ok, ask) ==
    /\ aq.pc[s] = "build"
    /\ LET key == aq.call[s].key
           stale == aq.call[s].stale
           agent == aq.built + 1
           released == IF stale THEN aq.lock ELSE aq.lock \ {key}
       IN IF ok
            THEN /\ ask => aq.turns < MaxTurns
                 /\ aq' = [aq EXCEPT
                             !.turns = IF ask THEN @ + 1 ELSE @,
                             !.built = agent,
                             !.cache = IF stale THEN @ ELSE [@ EXCEPT ![key] = agent],
                             !.lock = released,
                             !.call[s] = NoChatCall,
                             !.sess[s] = [@ EXCEPT !.agent = agent,
                                                   !.current_game = key[1],
                                                   !.model_choice = key[2]],
                             !.pc[s] = IF ask THEN "invoke" ELSE "idle"]
            ELSE aq' = [aq EXCEPT !.lock = released, !.call[s] = NoChatCall,
                                  !.pc[s] = "idle"]
    /\ UNCHANGED <<coreVars, rq, pq, lq, iq>>

\* app.py:136-158: the user's message is shown and appended to the session's
\* messages, then the agent is invoked with it on the constant thread: the
\* checkpointer hands the model the thread's conversation so far plus the new
\* message and keeps the result. When the invocation raises (app.py:157) the
\* thread may or may not have kept the message.
ChatInvoke(s, ok, saved) ==
    /\ aq.pc[s] = "invoke"
    /\ LET agent == aq.sess[s].agent
           th == ThreadOf(s)
           state == Append(aq.saver[agent][th], s)
       IN aq' = [aq EXCEPT
                   !.saver[agent][th] = IF ok \/ saved THEN state ELSE @,
                   !.sess[s].messages = IF ok THEN @ \o <<"user", "assistant">>
                                              ELSE Append(@, "user"),
                   !.pc[s] = "idle"]
    /\ UNCHANGED <<coreVars, rq, pq, lq, iq>>

\* agent_service.py:112: ttl=3600, a cached agent expires.
ChatExpire(k) ==
    /\ aq.cache[k] # NullAgent
    /\ aq' = [aq EXCEPT !.cache[k] = NullAgent]
    /\ UNCHANGED <<coreVars, rq, pq, lq, iq>>

InitChat ==
    /\ InitQuiet
    /\ rq = NoRq
    /\ pq = NoPq
    /\ lq = NoLq
    /\ iq = NoIq
    /\ aq = ChatStart

NextChat ==
    \/ \E s \in Sessions, clear_chat \in BOOLEAN, refresh \in BOOLEAN,
          g \in Games, m \in Models, ask \in BOOLEAN :
          ChatRun(s, clear_chat, refresh, g, m, ask)
    \/ \E s \in Sessions, ok \in BOOLEAN, ask \in BOOLEAN : ChatBuildEnd(s, ok, ask)
    \/ \E s \in Sessions, ok \in BOOLEAN, saved \in BOOLEAN : ChatInvoke(s, ok, saved)
    \/ \E k \in Keys : ChatExpire(k)

SpecChat == InitChat /\ [][NextChat]_vars

\* The pair a session has recorded for its agent.
ChatPair(s) == <<aq.sess[s].current_game, aq.sess[s].model_choice>>

\* Session s completes an invocation of its agent in this step.
InvokeStep(s) == aq.pc[s] = "invoke" /\ aq'.pc[s] = "idle"

\* Session s is handed an agent without building one in this step.
CacheHitStep(s) ==
    /\ aq.pc[s] = "idle"
    /\ aq'.pc[s] # "build"
    /\ aq'.sess[s].agent # aq.sess[s].agent

\* C17: a session that selects a pair whose agent is cached receives that cached
\* agent, the one another session built or received for the pair, and with it that
\* agent's checkpointer; every invocation is on thread "1", no other thread of any
\* checkpointer ever holds a message, and an invocation that returns has extended
\* the conversation thread "1" of the agent already held, whichever session's
\* messages it held, by the new message; only an invocation changes a
\* checkpointer, so clearing a session's displayed messages leaves every
\* checkpointer as it was.
C17_ConversationSharedAcrossSessions ==
    [][/\ \A s \in Sessions :
            /\ CacheHitStep(s) =>
                   /\ aq'.sess[s].agent # NullAgent
                   /\ aq'.sess[s].agent = aq.cache[ChatPair(s)']
            /\ (InvokeStep(s) /\ Len(aq'.sess[s].messages) = Len(aq.sess[s].messages) + 2) =>
                   aq'.saver[aq.sess[s].agent]["1"] =
                       Append(aq.saver[aq.sess[s].agent]["1"], s)
            /\ (aq.sess[s].messages # <<>> /\ aq'.sess[s].messages = <<>>) =>
                   aq'.saver = aq.saver
       /\ aq'.saver # aq.saver => \E s \in Sessions : InvokeStep(s)
       /\ \A a \in AgentIds, th \in ThreadIds \ {"1"} : aq'.saver[a][th] = <<>>
      ]_vars

\* Both sessions hold the same agent under the same pair, s1 sent a message and
\* then s2 did, s2's invocation was given s1's message before its own, and s1 has
\* cleared its displayed chat since while the agent's thread still holds both.
C17_Witness ==
    /\ aq.sess["s1"].agent # NullAgent
    /\ aq.sess["s1"].agent = aq.sess["s2"].agent
    /\ ChatPair("s1") = ChatPair("s2")
    /\ aq.saver[aq.sess["s1"].agent]["1"] = <<"s1", "s2">>
    /\ aq.sess["s1"].messages = <<>>
    /\ aq.sess["s2"].messages = <<"user", "assistant">>
    /\ aq.pc = [s \in Sessions |-> "idle"]

=============================================================================
